---------------------------- MODULE Spec2Model ----------------------------
(***************************************************************************)
(* The popup of the readagen extension (src/entrypoints/popup/App.vue):    *)
(* the extraction of the active tab's article into content segments and    *)
(* the segment player that reads them aloud through window.speechSynthesis.*)
(*                                                                         *)
(* The component's refs and let speechSynthesis are the variables (let     *)
(* speechUtterance is written and never read).  The speech engine,         *)
(* localStorage and the browser's tabs/scripting API are the environment:  *)
(* the engine's utterance queue, its paused flag and the events it still   *)
(* owes for cancelled utterances are variables too.  The engine follows    *)
(* the Web Speech API: cancel() empties the queue and leaves the paused    *)
(* flag alone, and for an utterance it removed the engine may later fire   *)
(* end, fire error, or fire nothing; the handlers stay attached.           *)
(*                                                                         *)
(* Every handler is a function from a record of the state it reads and     *)
(* writes to the record after it, so that a handler calling another one    *)
(* (nextSegment calls stopReading and startReading) is the composition the *)
(* code writes.  Numbers the sliders deal in are kept in tenths.           *)
(*                                                                         *)
(* Spec is the popup opened over an empty localStorage, on a tab that can  *)
(* show pages of up to MaxSegs segments; LiveSpec adds that the engine     *)
(* finishes what it speaks.  SettingsSpec is the popup opened over stored  *)
(* settings, with the sliders and the voice list in use, on a tab that     *)
(* shows a one-segment page.                                               *)
(***************************************************************************)
EXTENDS Integers, Sequences, FiniteSets, TLC

(***************************************************************************)
(* Bounds of the model                                                     *)
(***************************************************************************)
\* the longest segment list an extraction returns
MaxSegs == 3
\* events the engine may still owe for cancelled utterances
MaxCancelled == 1

(***************************************************************************)
(* Values                                                                  *)
(***************************************************************************)
\* localStorage.getItem of a key that was never set
NULL == "<null>"

Min(a, b) == IF a < b THEN a ELSE b
Max(a, b) == IF a > b THEN a ELSE b

\* a JavaScript number, in tenths, or NaN
Num(t) == [nan |-> FALSE, tenths |-> t]
NaN == [nan |-> TRUE, tenths |-> 0]

\* parseFloat of the strings localStorage can hold here
parseFloat(str) ==
  CASE str = "1"   -> Num(10)
    [] str = "1.3" -> Num(13)
    [] str = "0.5" -> Num(5)
    [] str = "2"   -> Num(20)
    [] str = "3"   -> Num(30)
    [] str = "0.1" -> Num(1)
    [] OTHER       -> NaN

\* Number.prototype.toString of the numbers above
toString(n) ==
  IF n.nan THEN "NaN"
  ELSE CASE n.tenths = 10 -> "1"
         [] n.tenths = 13 -> "1.3"
         [] n.tenths = 5  -> "0.5"
         [] n.tenths = 20 -> "2"
         [] n.tenths = 30 -> "3"
         [] n.tenths = 1  -> "0.1"
         [] OTHER         -> "?"

\* String.prototype.includes over strings kept as tuples of characters
includes(str, sub) ==
  \E i \in 0..(Len(str) - Len(sub)) :
     \A j \in 1..Len(sub) : str[i + j] = sub[j]

\* the segment the injected function pushes for the i-th content element of
\* page p: the second element of a page is a heading, the others paragraphs.
\* The pages the active tab can show are 0..MaxSegs, page p with p elements
SegmentTag(i) == IF i = 2 THEN <<"h", "1">> ELSE <<"p">>
Segment(p, i) ==
  [text |-> <<p, i>>, tag |-> SegmentTag(i),
   isPriority |-> SegmentTag(i)[1] = "h"]

\* what the injected function returns for page p
Article(p) ==
  [title |-> "title-" \o ToString(p),
   content |-> "content-" \o ToString(p),
   segments |-> [i \in 1..p |-> Segment(p, i)],
   url |-> "url-" \o ToString(p)]

Pages == 0..MaxSegs

\* the voice lists the platform can report
Alice == [name |-> "Alice", lang |-> <<"f","r","-","F","R">>, default |-> TRUE]
Bob == [name |-> "Bob", lang |-> <<"e","n","-","U","S">>, default |-> TRUE]
VoiceLists == {<<>>, <<Alice, Bob>>}
\* a platform that marks no English voice as its default
Carol == [name |-> "Carol", lang |-> <<"e","n","-","G","B">>, default |-> FALSE]
Catalogs == VoiceLists \cup {<<Alice, Carol>>}

\* the messages an extraction can fail with
\* new Error(message), and what the browser rejects an injection with
Error(message) == [isError |-> TRUE, message |-> message]
InjectionErrors == {Error("Cannot access contents of the page")}
\* the error field the injected function can return
ExtractorErrors == {"Failed to parse content"}

StorageKeys ==
  {"wxt-speech-rate", "wxt-speech-pitch", "wxt-speech-voice",
   "wxt-page-content", "wxt-page-title", "wxt-page-url"}

\* what localStorage holds when the popup opens
EmptyStorage == [k \in StorageKeys |-> NULL]
InitialStorages == {EmptyStorage}
\* what it can hold when settings were stored before: here a rate and a
\* pitch the sliders do not offer and a voice the platform does not have
StoredSettings ==
  {EmptyStorage,
   [EmptyStorage EXCEPT !["wxt-speech-rate"] = "3",
                        !["wxt-speech-pitch"] = "0.1",
                        !["wxt-speech-voice"] = "Zira"]}

\* min and max of the two range inputs, in tenths, and the stops the user
\* drags the sliders to
SliderMin == 5
SliderMax == 20
SliderStops == {13}


(***************************************************************************)
(* State                                                                   *)
(***************************************************************************)
VARIABLES
  \* the refs of the component
  pageContent, pageTitle, isLoading, error, isReading, currentSpeechIndex,
  contentSegments, speechRate, speechPitch, speechVoice, availableVoices,
  \* let speechSynthesis: TRUE once it holds window.speechSynthesis
  speechSynthesis,
  \* the platform: what window offers, the engine's voice list, its
  \* utterance queue (the head is the one being spoken), its paused flag and
  \* the number of cancelled utterances it may still fire an event on
  window, synthVoices, synthQueue, synthPaused, synthCancelled,
  \* localStorage
  localStorage,
  \* whether onMounted has run, and the await getPageContent is suspended at
  \* ("idle" when no call is running)
  mounted, pc,
  \* history: the handler that ran last, isReading and the cursor as it found
  \* them, the utterances it handed to speak(); the cursor start() began the current
  \* run at (-1 when a user action, an extraction or an error has intervened),
  \* whether only that run's own utterances have signalled since, and the
  \* cursors of the utterances the run has handed to the engine; and, in the
  \* specifications that keep it (tracked), the segment list and page content
  \* getPageContent found when the call that is running, or has just ended,
  \* began
  lastOp, before, spoken, run, sole, handed, prior

vars ==
  <<pageContent, pageTitle, isLoading, error, isReading, currentSpeechIndex,
    contentSegments, speechRate, speechPitch, speechVoice, availableVoices,
    speechSynthesis, window, synthVoices, synthQueue, synthPaused,
    synthCancelled, localStorage, mounted, pc, lastOp, before, spoken,
    run, sole, handed, prior>>

\* the state the player's handlers read and write, as one record
S ==
  [error |-> error, isReading |-> isReading,
   currentSpeechIndex |-> currentSpeechIndex,
   contentSegments |-> contentSegments, speechRate |-> speechRate,
   speechPitch |-> speechPitch, speechVoice |-> speechVoice,
   availableVoices |-> availableVoices, speechSynthesis |-> speechSynthesis,
   queue |-> synthQueue, paused |-> synthPaused,
   cancelled |-> synthCancelled, spoken |-> <<>>]

(***************************************************************************)
(* The speech engine's methods                                             *)
(***************************************************************************)
\* speechSynthesis.speak: the utterance joins the queue
speak(s, u) ==
  [s EXCEPT !.queue = Append(@, u), !.spoken = Append(@, u)]

\* speechSynthesis.cancel: the queue is emptied; the engine may still fire an
\* event on each removed utterance (beyond MaxCancelled it fires none); the
\* paused flag is not touched
cancel(s) ==
  [s EXCEPT !.queue = <<>>,
            !.cancelled = Min(@ + Len(s.queue), MaxCancelled)]

\* speechSynthesis.pause and speechSynthesis.resume
pause(s) == [s EXCEPT !.paused = TRUE]
resume(s) == [s EXCEPT !.paused = FALSE]

(***************************************************************************)
(* The player's handlers                                                   *)
(***************************************************************************)
\* a faulty variant of findVoice: without a match it takes the first voice
findVoiceOrFirst(voices, name) ==
  IF \E i \in 1..Len(voices) : voices[i].name = name THEN name
  ELSE IF Len(voices) > 0 THEN voices[1].name
  ELSE NULL

\* availableVoices.find(voice => voice.name === speechVoice.value): the name
\* of the first match, NULL when there is none
findVoice(voices, name) ==
  IF \E i \in 1..Len(voices) : voices[i].name = name
  THEN voices[CHOOSE i \in 1..Len(voices) :
                /\ voices[i].name = name
                /\ \A j \in 1..(i - 1) : voices[j].name # name].name
  ELSE NULL

\* new SpeechSynthesisUtterance(segment.text) with rate, pitch and voice set
Utterance(s) ==
  [text |-> s.contentSegments[s.currentSpeechIndex + 1].text,
   rate |-> s.speechRate, pitch |-> s.speechPitch,
   voice |-> IF s.speechVoice # ""
             THEN findVoice(s.availableVoices, s.speechVoice)
             ELSE NULL]

\* a faulty variant of speakCurrentSegment: it does not look at isReading
speakCurrentSegmentAnyway(s) ==
  IF s.currentSpeechIndex >= Len(s.contentSegments)
  THEN [s EXCEPT !.isReading = FALSE]
  ELSE speak(s, Utterance(s))

speakCurrentSegment(s) ==
  IF ~s.isReading \/ s.currentSpeechIndex >= Len(s.contentSegments)
  THEN [s EXCEPT !.isReading = FALSE]
  ELSE speak(s, Utterance(s))

\* faulty variants of onend: one that forgets the increment, one that skips a
\* segment
onendStuck(s) == speakCurrentSegment(s)
onendSkip(s) ==
  speakCurrentSegment([s EXCEPT !.currentSpeechIndex = @ + 2])

\* speechUtterance.onend
onend(s) ==
  speakCurrentSegment([s EXCEPT !.currentSpeechIndex = @ + 1])

\* a faulty variant of onerror: it reports the error and tries the segment
\* again
onerrorRetry(s) ==
  speakCurrentSegment([s EXCEPT !.error = "Error during speech synthesis"])

\* speechUtterance.onerror
onerror(s) ==
  [s EXCEPT !.error = "Error during speech synthesis", !.isReading = FALSE]

\* faulty variants of stopReading: one that leaves the engine speaking, one
\* that rewinds
stopReadingNoCancel(s) ==
  IF s.speechSynthesis THEN [s EXCEPT !.isReading = FALSE] ELSE s
stopReadingRewind(s) ==
  IF s.speechSynthesis
  THEN [cancel(s) EXCEPT !.isReading = FALSE, !.currentSpeechIndex = 0]
  ELSE s

stopReading(s) ==
  IF s.speechSynthesis
  THEN [cancel(s) EXCEPT !.isReading = FALSE]
  ELSE s

\* a faulty variant of startReading: it does not look for the engine
startReadingUnchecked(s) ==
  IF Len(s.contentSegments) = 0
  THEN [s EXCEPT !.error = "No content to read"]
  ELSE LET stopped == stopReading(s)
           reset == IF stopped.currentSpeechIndex >= Len(stopped.contentSegments)
                    THEN [stopped EXCEPT !.currentSpeechIndex = 0]
                    ELSE stopped
       IN speakCurrentSegment([reset EXCEPT !.isReading = TRUE])

startReading(s) ==
  IF Len(s.contentSegments) = 0
  THEN [s EXCEPT !.error = "No content to read"]
  ELSE IF ~s.speechSynthesis
  THEN [s EXCEPT !.error = "Speech synthesis not available"]
  ELSE LET stopped == stopReading(s)
           reset == IF stopped.currentSpeechIndex >= Len(stopped.contentSegments)
                    THEN [stopped EXCEPT !.currentSpeechIndex = 0]
                    ELSE stopped
       IN speakCurrentSegment([reset EXCEPT !.isReading = TRUE])

\* a faulty variant of togglePause: pausing also ends playback
togglePauseHalts(s) ==
  IF ~s.speechSynthesis THEN s
  ELSE IF s.paused THEN resume(s)
  ELSE [pause(s) EXCEPT !.isReading = FALSE]

togglePause(s) ==
  IF ~s.speechSynthesis THEN s
  ELSE IF s.paused THEN resume(s) ELSE pause(s)

\* a faulty variant of nextSegment: it does not look at isReading
nextSegmentUnguarded(s) ==
  startReading([stopReading(s) EXCEPT !.currentSpeechIndex = @ + 1])

nextSegment(s) ==
  IF ~s.isReading THEN s
  ELSE startReading([stopReading(s) EXCEPT !.currentSpeechIndex = @ + 1])

prevSegment(s) ==
  IF ~s.isReading THEN s
  ELSE startReading([stopReading(s) EXCEPT
                       !.currentSpeechIndex = Max(0, @ - 1)])

(***************************************************************************)
(* Settings: the watchers and the voice list                               *)
(***************************************************************************)
\* watch(ref, v => localStorage.setItem(key, v)): runs when the ref changed
watch(store, key, old, new, str) ==
  IF new # old THEN [store EXCEPT ![key] = str] ELSE store

\* a faulty variant of defaultVoice: always the first voice
defaultVoiceFirst(voices) == voices[1]

\* voices.find(voice => voice.lang.includes('en') && voice.default) || voices[0]
defaultVoice(voices) ==
  IF \E i \in 1..Len(voices) :
        includes(voices[i].lang, <<"e", "n">>) /\ voices[i].default
  THEN voices[CHOOSE i \in 1..Len(voices) :
                /\ includes(voices[i].lang, <<"e", "n">>) /\ voices[i].default
                /\ \A j \in 1..(i - 1) :
                     ~(includes(voices[j].lang, <<"e", "n">>)
                       /\ voices[j].default)]
  ELSE voices[1]

\* getVoices, on the record [availableVoices, speechVoice]
getVoices(v, voices) ==
  IF Len(voices) > 0
  THEN [availableVoices |-> voices,
        speechVoice |-> IF v.speechVoice = ""
                        THEN defaultVoice(voices).name
                        ELSE v.speechVoice]
  ELSE v

(***************************************************************************)
(* Initial state: the refs as setup leaves them, in any window             *)
(***************************************************************************)
Windows ==
  {[speechSynthesis |-> FALSE, onvoiceschanged |-> FALSE],
   [speechSynthesis |-> TRUE, onvoiceschanged |-> FALSE],
   [speechSynthesis |-> TRUE, onvoiceschanged |-> TRUE]}

Init ==
  /\ pageContent = "" /\ pageTitle = "" /\ isLoading = FALSE /\ error = ""
  /\ isReading = FALSE /\ currentSpeechIndex = 0 /\ contentSegments = <<>>
  /\ speechRate = Num(10) /\ speechPitch = Num(10) /\ speechVoice = ""
  /\ availableVoices = <<>> /\ speechSynthesis = FALSE
  /\ window \in Windows
  /\ synthVoices \in (IF window.speechSynthesis THEN VoiceLists ELSE {<<>>})
  /\ synthQueue = <<>> /\ synthPaused = FALSE /\ synthCancelled = 0
  /\ localStorage \in InitialStorages
  /\ mounted = FALSE /\ pc = "idle"
  /\ lastOp = "setup" /\ spoken = <<>>
  /\ before = [isReading |-> FALSE, currentSpeechIndex |-> 0]
  /\ run = -1 /\ sole = FALSE /\ handed = <<>>
  /\ prior = [tracked |-> FALSE, contentSegments |-> <<>>, pageContent |-> ""]

(***************************************************************************)
(* Frames                                                                  *)
(***************************************************************************)
\* the player's record becomes the state
Apply(r) ==
  /\ error' = r.error /\ isReading' = r.isReading
  /\ currentSpeechIndex' = r.currentSpeechIndex
  /\ contentSegments' = r.contentSegments
  /\ speechRate' = r.speechRate /\ speechPitch' = r.speechPitch
  /\ speechVoice' = r.speechVoice /\ availableVoices' = r.availableVoices
  /\ speechSynthesis' = r.speechSynthesis
  /\ synthQueue' = r.queue /\ synthPaused' = r.paused
  /\ synthCancelled' = r.cancelled /\ spoken' = r.spoken

\* the history of a step of handler op
Did(op) ==
  /\ lastOp' = op
  /\ before' = [isReading |-> isReading,
                currentSpeechIndex |-> currentSpeechIndex]
  /\ prior' = IF ~prior.tracked THEN prior
              ELSE IF op = "getPageContent"
              THEN [prior EXCEPT !.contentSegments = contentSegments,
                                 !.pageContent = pageContent]
              ELSE IF pc = "idle"
              THEN [prior EXCEPT !.contentSegments = <<>>, !.pageContent = ""]
              ELSE prior

\* a step that ends the current run
Interrupt == run' = -1 /\ sole' = FALSE /\ handed' = <<>>
KeepRun == UNCHANGED <<run, sole, handed>>

PageVars == <<pageContent, pageTitle, isLoading, pc>>
PlatformVars == <<window, synthVoices, localStorage, mounted>>

(***************************************************************************)
(* The user's actions on the player.  A handler runs when its button is    *)
(* clicked: the reader controls are rendered while there are segments,     *)
(* Start Reading is disabled while isReading, the other four unless        *)
(* isReading.  What a handler would do in the states its button excludes   *)
(* is stated of the handler, as a function of the state.                   *)
(***************************************************************************)
\* <div v-if="contentSegments.length > 0" class="reader-controls">
ControlsShown == mounted /\ Len(contentSegments) > 0

StartReading ==
  /\ ControlsShown /\ ~isReading
  /\ LET r == startReading(S) IN
       /\ Apply(r) /\ Did("startReading")
       /\ IF r.spoken # <<>>
          THEN run' = r.currentSpeechIndex /\ sole' = TRUE
               /\ handed' = r.spoken
          ELSE Interrupt
  /\ UNCHANGED <<PageVars, PlatformVars>>

StopReading ==
  /\ ControlsShown /\ isReading
  /\ Apply(stopReading(S)) /\ Did("stopReading") /\ Interrupt
  /\ UNCHANGED <<PageVars, PlatformVars>>

TogglePause ==
  /\ ControlsShown /\ isReading
  /\ Apply(togglePause(S)) /\ Did("togglePause") /\ Interrupt
  /\ UNCHANGED <<PageVars, PlatformVars>>

NextSegment ==
  /\ ControlsShown /\ isReading
  /\ Apply(nextSegment(S)) /\ Did("nextSegment") /\ Interrupt
  /\ UNCHANGED <<PageVars, PlatformVars>>

PrevSegment ==
  /\ ControlsShown /\ isReading
  /\ Apply(prevSegment(S)) /\ Did("prevSegment") /\ Interrupt
  /\ UNCHANGED <<PageVars, PlatformVars>>

(***************************************************************************)
(* The engine's events                                                     *)
(***************************************************************************)
\* the utterance being spoken finishes: the engine takes it off the queue and
\* fires its end event
UtteranceEnd ==
  /\ synthQueue # <<>> /\ ~synthPaused
  /\ LET r == onend([S EXCEPT !.queue = Tail(@)]) IN
       /\ Apply(r) /\ Did("onend")
       /\ UNCHANGED <<run, sole>>
       /\ handed' = IF run >= 0 /\ sole THEN handed \o r.spoken ELSE <<>>
  /\ UNCHANGED <<PageVars, PlatformVars>>

\* the utterance at the head of the queue fails: its error event fires
UtteranceError ==
  /\ synthQueue # <<>>
  /\ Apply(onerror([S EXCEPT !.queue = Tail(@)])) /\ Did("onerror")
  /\ Interrupt
  /\ UNCHANGED <<PageVars, PlatformVars>>

\* the engine fires end on an utterance cancel() removed
CancelledEnd ==
  /\ synthCancelled > 0
  /\ Apply(onend([S EXCEPT !.cancelled = @ - 1])) /\ Did("onend-cancelled")
  /\ run' = run /\ sole' = FALSE /\ handed' = <<>>
  /\ UNCHANGED <<PageVars, PlatformVars>>

\* the engine fires error (interrupted, canceled) on an utterance cancel()
\* removed
CancelledError ==
  /\ synthCancelled > 0
  /\ Apply(onerror([S EXCEPT !.cancelled = @ - 1]))
  /\ Did("onerror-cancelled") /\ Interrupt
  /\ UNCHANGED <<PageVars, PlatformVars>>

\* the engine fires nothing on an utterance cancel() removed
CancelledDrop ==
  /\ synthCancelled > 0
  /\ Apply([S EXCEPT !.cancelled = @ - 1]) /\ Did("none") /\ KeepRun
  /\ UNCHANGED <<PageVars, PlatformVars>>

(***************************************************************************)
(* Mounting and the voice list                                             *)
(***************************************************************************)
PlayerVars ==
  <<error, isReading, currentSpeechIndex, contentSegments, speechRate,
    speechPitch, speechSynthesis, synthQueue, synthPaused, synthCancelled>>

\* onMounted: the saved settings are loaded, then initSpeechSynthesis
OnMounted ==
  /\ ~mounted /\ mounted' = TRUE
  /\ LET savedRate == localStorage["wxt-speech-rate"]
         savedPitch == localStorage["wxt-speech-pitch"]
         savedVoice == localStorage["wxt-speech-voice"]
         rate == IF savedRate # NULL THEN parseFloat(savedRate)
                 ELSE speechRate
         pitch == IF savedPitch # NULL THEN parseFloat(savedPitch)
                  ELSE speechPitch
         loaded == [availableVoices |-> availableVoices,
                    speechVoice |-> IF savedVoice # NULL /\ savedVoice # ""
                                    THEN savedVoice ELSE speechVoice]
         v == IF window.speechSynthesis
              THEN getVoices(loaded, synthVoices) ELSE loaded
     IN /\ speechRate' = rate /\ speechPitch' = pitch
        /\ speechVoice' = v.speechVoice
        /\ availableVoices' = v.availableVoices
        /\ localStorage' =
             watch(watch(watch(localStorage,
                               "wxt-speech-rate", speechRate, rate,
                               toString(rate)),
                         "wxt-speech-pitch", speechPitch, pitch,
                         toString(pitch)),
                   "wxt-speech-voice", speechVoice, v.speechVoice,
                   v.speechVoice)
  /\ speechSynthesis' = window.speechSynthesis
  /\ error' = IF window.speechSynthesis THEN error
              ELSE "Speech synthesis not supported in this browser"
  /\ Did("onMounted") /\ spoken' = <<>> /\ Interrupt
  /\ UNCHANGED <<PageVars, isReading, currentSpeechIndex, contentSegments,
                 synthQueue, synthPaused, synthCancelled, window, synthVoices>>

\* the platform's voice list changes to another of lists; onvoiceschanged,
\* where the window has it, runs getVoices
VoicesChangedTo(lists) ==
  /\ mounted /\ window.speechSynthesis
  /\ \E voices \in lists \ {synthVoices} :
       /\ synthVoices' = voices
       /\ LET v == IF window.onvoiceschanged
                   THEN getVoices([availableVoices |-> availableVoices,
                                   speechVoice |-> speechVoice], voices)
                   ELSE [availableVoices |-> availableVoices,
                         speechVoice |-> speechVoice]
          IN /\ availableVoices' = v.availableVoices
             /\ speechVoice' = v.speechVoice
             /\ localStorage' = watch(localStorage, "wxt-speech-voice",
                                      speechVoice, v.speechVoice,
                                      v.speechVoice)
  /\ Did("getVoices") /\ spoken' = <<>> /\ KeepRun
  /\ UNCHANGED <<PageVars, PlayerVars, window, mounted>>

VoicesChanged == VoicesChangedTo(VoiceLists)

(***************************************************************************)
(* getPageContent, one action for each stretch between its awaits          *)
(***************************************************************************)
SettingsVars == <<speechRate, speechPitch, speechVoice, availableVoices>>
EngineVars ==
  <<speechSynthesis, synthQueue, synthPaused, synthCancelled, window,
    synthVoices, mounted>>

\* up to the first await.  The Extract Content button is the only caller and
\* is disabled while isLoading, which is set for as long as a call is running
GetPageContent ==
  /\ mounted /\ ~isLoading /\ pc = "idle"
  /\ isLoading' = TRUE /\ error' = "" /\ pageContent' = ""
  /\ contentSegments' = <<>>
  /\ pc' = "query"
  /\ Did("getPageContent") /\ spoken' = <<>> /\ Interrupt
  /\ UNCHANGED <<pageTitle, isReading, currentSpeechIndex, SettingsVars,
                 EngineVars, localStorage>>

\* an await resumes and the call goes on to its next await
Resume(stage) ==
  /\ pc' = stage
  /\ Did("await") /\ spoken' = <<>> /\ KeepRun
  /\ UNCHANGED <<pageContent, pageTitle, isLoading, error, isReading,
                 currentSpeechIndex, contentSegments, SettingsVars,
                 EngineVars, localStorage>>

\* the catch and finally blocks
Catch(err) ==
  /\ error' = IF err.isError THEN err.message ELSE "Unknown error occurred"
  /\ isLoading' = FALSE
  /\ pc' = "idle"
  /\ Did("getPageContent-catch") /\ spoken' = <<>> /\ Interrupt
  /\ UNCHANGED <<pageContent, pageTitle, isReading, currentSpeechIndex,
                 contentSegments, SettingsVars, EngineVars, localStorage>>

\* the result is processed, then the finally block
Loaded(article) ==
  /\ pageTitle' = article.title /\ pageContent' = article.content
  /\ contentSegments' = article.segments
  /\ localStorage' = [localStorage EXCEPT
                        !["wxt-page-content"] = article.content,
                        !["wxt-page-title"] = article.title,
                        !["wxt-page-url"] = article.url]
  /\ isLoading' = FALSE
  /\ pc' = "idle"
  /\ Did("getPageContent-loaded") /\ spoken' = <<>> /\ Interrupt
  /\ UNCHANGED <<error, isReading, currentSpeechIndex, SettingsVars,
                 EngineVars>>

\* browser.tabs.query answers
TabsQueryReturns ==
  /\ pc = "query"
  /\ \/ Resume("inject")
     \/ Catch(Error("No active tab found"))

\* the injection of readability.js answers
InjectReturns ==
  /\ pc = "inject"
  /\ \/ Resume("extract")
     \/ \E err \in InjectionErrors : Catch(err)

\* the injected function answers, the tab showing one of pages
ExtractReturnsOf(pages) ==
  /\ pc = "extract"
  /\ \/ \E p \in pages : Loaded(Article(p))
     \/ \E message \in ExtractorErrors : Catch(Error(message))
     \/ Catch(Error("Failed to extract content"))

ExtractReturns == ExtractReturnsOf(Pages)

(***************************************************************************)
(* The settings controls, rendered with the reader controls                *)
(***************************************************************************)
\* where a range input shows the value n of its ref: within min and max
position(n) == Max(SliderMin, Min(SliderMax, n.tenths))

\* <input type="range" v-model="speechRate">: the user drags the slider to
\* another stop and the watcher stores the value.  v-model hands the ref
\* the input's value, a string; the number it denotes is what is kept here
SetRate ==
  /\ ControlsShown
  /\ \E t \in SliderStops \ {position(speechRate)} :
       /\ speechRate' = Num(t)
       /\ localStorage' = watch(localStorage, "wxt-speech-rate", speechRate,
                                Num(t), toString(Num(t)))
  /\ Did("speechRate") /\ spoken' = <<>> /\ KeepRun
  /\ UNCHANGED <<PageVars, error, isReading, currentSpeechIndex,
                 contentSegments, speechPitch, speechVoice, availableVoices,
                 EngineVars>>

\* <input type="range" v-model="speechPitch">
SetPitch ==
  /\ ControlsShown
  /\ \E t \in SliderStops \ {position(speechPitch)} :
       /\ speechPitch' = Num(t)
       /\ localStorage' = watch(localStorage, "wxt-speech-pitch", speechPitch,
                                Num(t), toString(Num(t)))
  /\ Did("speechPitch") /\ spoken' = <<>> /\ KeepRun
  /\ UNCHANGED <<PageVars, error, isReading, currentSpeechIndex,
                 contentSegments, speechRate, speechVoice, availableVoices,
                 EngineVars>>

\* <select v-model="speechVoice">, rendered while there are voices: the user
\* picks another option
SelectVoice ==
  /\ ControlsShown /\ Len(availableVoices) > 0
  /\ \E i \in 1..Len(availableVoices) :
       /\ availableVoices[i].name # speechVoice
       /\ speechVoice' = availableVoices[i].name
       /\ localStorage' = watch(localStorage, "wxt-speech-voice", speechVoice,
                                availableVoices[i].name,
                                availableVoices[i].name)
  /\ Did("speechVoice") /\ spoken' = <<>> /\ KeepRun
  /\ UNCHANGED <<PageVars, error, isReading, currentSpeechIndex,
                 contentSegments, speechRate, speechPitch, availableVoices,
                 EngineVars>>

\* the platform's voice list changes to another catalog
CatalogChanged == VoicesChangedTo(Catalogs)

\* the injected function answers on a tab that shows the one-segment page
PageReturns == ExtractReturnsOf({1})

(***************************************************************************)
(* The specifications                                                      *)
(***************************************************************************)
Next ==
  \/ OnMounted
  \/ VoicesChanged
  \/ GetPageContent
  \/ TabsQueryReturns
  \/ InjectReturns
  \/ ExtractReturns
  \/ StartReading
  \/ StopReading
  \/ TogglePause
  \/ NextSegment
  \/ PrevSegment
  \/ UtteranceEnd
  \/ UtteranceError
  \/ CancelledEnd
  \/ CancelledError
  \/ CancelledDrop

Spec == Init /\ [][Next]_vars

\* the engine finishes the utterance it is speaking
LiveSpec == Spec /\ WF_vars(UtteranceEnd)

\* The popup opened on a tab that shows the one-segment page, in a window
\* whose speech engine announces its voice list, over settings stored before
\* and any catalog of voices, with the user at the settings controls as
\* well; the history prior is kept
SettingsInit ==
  /\ pageContent = "" /\ pageTitle = "" /\ isLoading = FALSE /\ error = ""
  /\ isReading = FALSE /\ currentSpeechIndex = 0 /\ contentSegments = <<>>
  /\ speechRate = Num(10) /\ speechPitch = Num(10) /\ speechVoice = ""
  /\ availableVoices = <<>> /\ speechSynthesis = FALSE
  /\ window = [speechSynthesis |-> TRUE, onvoiceschanged |-> TRUE]
  /\ synthVoices \in Catalogs
  /\ synthQueue = <<>> /\ synthPaused = FALSE /\ synthCancelled = 0
  /\ localStorage \in StoredSettings
  /\ mounted = FALSE /\ pc = "idle"
  /\ lastOp = "setup" /\ spoken = <<>>
  /\ before = [isReading |-> FALSE, currentSpeechIndex |-> 0]
  /\ run = -1 /\ sole = FALSE /\ handed = <<>>
  /\ prior = [tracked |-> TRUE, contentSegments |-> <<>>, pageContent |-> ""]

SettingsNext ==
  \/ OnMounted
  \/ CatalogChanged
  \/ SetRate
  \/ SetPitch
  \/ SelectVoice
  \/ GetPageContent
  \/ TabsQueryReturns
  \/ InjectReturns
  \/ PageReturns
  \/ StartReading
  \/ StopReading
  \/ TogglePause
  \/ NextSegment
  \/ PrevSegment
  \/ UtteranceEnd
  \/ UtteranceError
  \/ CancelledEnd
  \/ CancelledError
  \/ CancelledDrop

SettingsSpec == SettingsInit /\ [][SettingsNext]_vars

(***************************************************************************)
(* Properties                                                              *)
(***************************************************************************)
cursor == currentSpeechIndex
length == Len(contentSegments)

\* C1: when startReading has begun playback on an engine that is not paused
\* and the engine finishes every utterance it speaks, then, unless a user
\* action, an extraction or an error event intervenes (run < 0), playback
\* reaches isReading = FALSE with the cursor equal to the number of segments.
C1_Termination ==
  (lastOp = "startReading" /\ run >= 0 /\ ~synthPaused)
    ~> (run < 0 \/ (~isReading /\ cursor = length))

\* a run begun by startReading has played to the end of a list
C1_Witness ==
  /\ lastOp = "onend" /\ run >= 0 /\ before.isReading
  /\ ~isReading /\ cursor = length /\ length >= 2

\* C2: whenever the cursor is at or past the end of the loaded list,
\* isReading is false.
C2_FinishedNotPlaying == cursor >= length => ~isReading

\* C3: while only the utterances of the run startReading began at cursor c
\* have signalled their end, the engine has been handed the segments c, c+1,
\* ... in that order and each once, up to the cursor; the one at the cursor
\* is the only one in the queue; the run ends with all of c .. length-1
\* handed over; and each end event moves the cursor by exactly one.
C3_InOrder ==
  /\ [](run >= 0 /\ sole =>
         /\ run < length /\ Len(handed) >= 1
         /\ \A i \in 1..Len(handed) :
              /\ run + i <= length
              /\ handed[i].text = contentSegments[run + i].text
         /\ IF isReading
            THEN /\ cursor = run + Len(handed) - 1
                 /\ synthQueue = <<handed[Len(handed)]>>
            ELSE /\ cursor = length /\ Len(handed) = length - run
                 /\ synthQueue = <<>>)
  /\ [][run >= 0 /\ sole /\ lastOp' = "onend" => cursor' = cursor + 1]_vars

\* a run from the first segment has handed over the whole list
C3_Witness ==
  /\ run = 0 /\ sole /\ ~isReading /\ length = MaxSegs
  /\ Len(handed) = length /\ cursor = length

\* C4: in every state stopReading leaves isReading false and the engine's
\* queue empty, and a second stopReading changes nothing more.
C4_StopIdempotent ==
  /\ LET s == stopReading(S) IN
       /\ ~s.isReading /\ s.queue = <<>>
       /\ stopReading(s) = s
  /\ lastOp = "stopReading" => ~isReading /\ synthQueue = <<>>

\* Stop was clicked while an utterance was in flight
C4_Witness ==
  /\ lastOp = "stopReading" /\ before.isReading /\ synthCancelled > 0
  /\ ~isReading /\ synthQueue = <<>>

\* C5 as claimed: after stopReading the cursor is 0 and isReading is false.
C5_StopResets ==
  lastOp = "stopReading" => cursor = 0 /\ ~isReading

\* C5, amended: after stopReading isReading is false and the cursor is where
\* it was before the call.
C5_StopKeepsCursor ==
  /\ LET s == stopReading(S) IN
       ~s.isReading /\ s.currentSpeechIndex = cursor
  /\ lastOp = "stopReading" =>
       ~isReading /\ cursor = before.currentSpeechIndex

\* Stop was clicked past the first segment
C5_Witness ==
  /\ lastOp = "stopReading" /\ before.isReading
  /\ before.currentSpeechIndex > 0 /\ cursor = before.currentSpeechIndex

\* C6: after a successful extraction has loaded a list, the cursor is 0 and
\* isReading is false.
C6_LoadResets ==
  lastOp = "getPageContent-loaded" => cursor = 0 /\ ~isReading

\* C7: nextSegment while the last segment is playing leaves the cursor at the
\* length of the list, isReading false and nothing in the engine's queue.
C7_NextPastEnd ==
  lastOp = "nextSegment" /\ before.isReading
    /\ before.currentSpeechIndex = length - 1
  => cursor = length /\ ~isReading /\ synthQueue = <<>>

\* C8: the cursor is never negative, and prevSegment while playing at cursor
\* c leaves the cursor at max(0, c-1) with that segment, and only it, handed
\* to the engine.
C8_PrevClamps ==
  /\ cursor >= 0
  /\ lastOp = "prevSegment" /\ before.isReading =>
       /\ cursor = Max(0, before.currentSpeechIndex - 1)
       /\ isReading /\ cursor < length
       /\ Len(spoken) = 1 /\ synthQueue = spoken
       /\ spoken[1].text = contentSegments[cursor + 1].text

\* C9: startReading with no segments reports "No content to read", with
\* segments and no engine it reports "Speech synthesis not available"; in
\* both cases nothing but the error slot changes: isReading stays as it was
\* (false, when it was), the cursor stays, and nothing is handed to the
\* engine.
C9_StartFails ==
  /\ LET s == startReading(S) IN
       /\ length = 0 => s = [S EXCEPT !.error = "No content to read"]
       /\ length > 0 /\ ~speechSynthesis =>
            s = [S EXCEPT !.error = "Speech synthesis not available"]
       /\ length = 0 \/ ~speechSynthesis =>
            /\ s.error # "" /\ s.spoken = <<>> /\ s.queue = synthQueue
            /\ s.currentSpeechIndex = cursor
            /\ ~isReading => ~s.isReading
  /\ lastOp = "startReading" /\ ~speechSynthesis =>
       /\ error = "Speech synthesis not available" /\ ~isReading
       /\ cursor = before.currentSpeechIndex
       /\ spoken = <<>> /\ synthQueue = <<>>

\* Start Reading was clicked in a window without a speech engine
C9_Witness ==
  /\ lastOp = "startReading" /\ ~speechSynthesis /\ length > 0
  /\ error = "Speech synthesis not available" /\ ~isReading
  /\ spoken = <<>>

\* C10: the error event of the utterance being spoken leaves isReading
\* false, the error message set and the cursor where it was, and hands
\* nothing to the engine; and from then on, as in every state with isReading
\* false, no step but startReading hands an utterance to the engine or sets
\* isReading.
C10_ErrorHalts ==
  [][/\ lastOp' = "onerror" =>
          /\ ~isReading' /\ error' = "Error during speech synthesis"
          /\ cursor' = cursor /\ spoken' = <<>>
     /\ ~isReading /\ lastOp' # "startReading" =>
          ~isReading' /\ spoken' = <<>>]_vars

\* the engine reported an error on a segment past the first
C10_Witness ==
  /\ lastOp = "onerror" /\ before.isReading
  /\ before.currentSpeechIndex > 0 /\ cursor = before.currentSpeechIndex
  /\ ~isReading /\ error = "Error during speech synthesis"
  /\ spoken = <<>>

\* C11: getPageContent and startReading begin by clearing the error slot:
\* the slot is empty once getPageContent has run to its first await, and
\* empty after a startReading that began playback.
C11_ErrorCleared ==
  /\ lastOp = "getPageContent" => error = ""
  /\ lastOp = "startReading" /\ spoken # <<>> => error = ""

\* C12: when getPageContent has ended in its catch block, an error message
\* is shown and the segment list and the page content are what they were
\* when the call began; the catch block itself leaves the cursor and
\* isReading as they were.
C12_FailureKeepsState ==
  lastOp = "getPageContent-catch" /\ prior.tracked =>
    /\ error # ""
    /\ contentSegments = prior.contentSegments
    /\ pageContent = prior.pageContent
    /\ cursor = before.currentSpeechIndex /\ isReading = before.isReading

\* C13: in every state togglePause changes the engine's paused flag and
\* nothing else (cursor, isReading, segment list, error, queue), and changes
\* nothing at all while there is no engine.
C13_PauseOnlyPauses ==
  /\ togglePause(S) =
       [S EXCEPT !.paused = IF speechSynthesis THEN ~synthPaused
                            ELSE synthPaused]
  /\ lastOp = "togglePause" =>
       /\ cursor = before.currentSpeechIndex
       /\ isReading = before.isReading /\ spoken = <<>>

\* Pause/Resume was clicked while a segment past the first was being spoken
C13_Witness ==
  /\ lastOp = "togglePause" /\ synthPaused /\ isReading
  /\ cursor > 0 /\ cursor < length /\ synthQueue # <<>>

\* C14: in every state with isReading false, nextSegment and prevSegment
\* change nothing: cursor, isReading, error, the engine's queue and paused
\* flag are as before, nothing is cancelled and nothing handed to speak().
C14_IdleSkipIsNoOp ==
  ~isReading => nextSegment(S) = S /\ prevSegment(S) = S

\* a stopped player past the first segment, its engine left paused with an
\* event owed, where Next/Previous would have something to do
C14_Witness ==
  /\ ~isReading /\ speechSynthesis /\ length > 1 /\ cursor > 0
  /\ synthPaused /\ synthCancelled > 0
  /\ nextSegment(S) = S /\ prevSegment(S) = S

\* C15: in every state speechRate and speechPitch are numbers from 0.5 to 2,
\* and so are the rate and pitch of every utterance handed to the engine.
C15_RateInRange ==
  LET inRange(n) == ~n.nan /\ SliderMin <= n.tenths /\ n.tenths <= SliderMax
  IN /\ inRange(speechRate) /\ inRange(speechPitch)
     /\ \A i \in 1..Len(synthQueue) :
          inRange(synthQueue[i].rate) /\ inRange(synthQueue[i].pitch)

\* C16: whenever getVoices runs (in onMounted, after the saved voice is
\* loaded, and on each voiceschanged event) and finds a non-empty list while
\* speechVoice is empty, availableVoices becomes that list and speechVoice
\* the name of its first voice whose lang contains "en" and that is the
\* default, or of its first voice when there is none; when speechVoice is
\* not empty, or the list is empty, speechVoice stays as it is.
C16_DefaultVoice ==
  [][LET saved == localStorage["wxt-speech-voice"]
         selected == IF lastOp' = "onMounted" /\ saved # NULL /\ saved # ""
                     THEN saved ELSE speechVoice
         voices == synthVoices'
         enDefault(i) ==
           includes(voices[i].lang, <<"e", "n">>) /\ voices[i].default
     IN \/ lastOp' = "onMounted" /\ window.speechSynthesis
        \/ lastOp' = "getVoices" /\ window.onvoiceschanged
        => IF selected = "" /\ Len(voices) > 0
           THEN /\ availableVoices' = voices
                /\ IF \E i \in 1..Len(voices) : enDefault(i)
                   THEN \E i \in 1..Len(voices) :
                          /\ enDefault(i)
                          /\ \A j \in 1..(i - 1) : ~enDefault(j)
                          /\ speechVoice' = voices[i].name
                   ELSE speechVoice' = voices[1].name
           ELSE speechVoice' = selected]_vars

\* the popup opened with no voice stored on a platform whose second voice is
\* the default English one
C16_Witness ==
  /\ lastOp = "onMounted" /\ availableVoices = <<Alice, Bob>>
  /\ speechVoice = "Bob" /\ localStorage["wxt-speech-voice"] = "Bob"

\* C17: every utterance handed to the engine has no voice assigned when
\* speechVoice is the name of no voice in availableVoices (or that list is
\* empty), and the voice of that name when it is; it is queued, isReading
\* is true and the error slot is as it was.
C17_VoiceFallback ==
  [][spoken' # <<>> =>
       /\ \A i \in 1..Len(spoken') :
            spoken'[i].voice =
              IF \E j \in 1..Len(availableVoices) :
                    availableVoices[j].name = speechVoice
              THEN speechVoice ELSE NULL
       /\ isReading' /\ error' = error
       /\ synthQueue' # <<>>
       /\ synthQueue'[Len(synthQueue')] = spoken'[Len(spoken')]]_vars

\* a segment was handed to the engine with the voice Zira selected and the
\* voices Alice and Bob available
C17_Witness ==
  /\ spoken # <<>> /\ speechVoice = "Zira"
  /\ availableVoices = <<Alice, Bob>>
  /\ spoken[1].voice = NULL /\ synthQueue = spoken
  /\ isReading /\ error = ""

\* C18: an end or error event the engine fires on an utterance that cancel()
\* removed changes neither the cursor nor isReading nor the error slot and
\* hands nothing to the engine; and the queue never holds more than one
\* utterance.
C18_LateSignalIgnored ==
  [][/\ lastOp' \in {"onend-cancelled", "onerror-cancelled"} =>
          /\ cursor' = cursor /\ isReading' = isReading
          /\ error' = error /\ spoken' = <<>>
     /\ Len(synthQueue') <= 1]_vars

\* C19: after a startReading, nextSegment or prevSegment that handed a
\* segment to the engine, the engine is not paused.
C19_StopUnpauses ==
  lastOp \in {"startReading", "nextSegment", "prevSegment"} /\ spoken # <<>>
    => ~synthPaused

\* C20: a step that hands an utterance to the engine hands it one, with
\* isReading true and the cursor at a segment of the list as it is then,
\* the segment the utterance is built from.
C20_SpeakInRange ==
  spoken # <<>> =>
    /\ isReading /\ 0 <= cursor /\ cursor < length
    /\ Len(spoken) = 1
    /\ spoken[1].text = contentSegments[cursor + 1].text

\* the end event of a cancelled utterance handed the engine a segment while
\* another was in its queue
C20_Witness ==
  /\ lastOp = "onend-cancelled" /\ spoken # <<>> /\ Len(synthQueue) = 2
  /\ isReading /\ cursor > 0 /\ cursor < length
  /\ spoken[1].text = contentSegments[cursor + 1].text

=============================================================================
